---- MODULE Spec2Model ----
(***************************************************************************)
(* Api-Market: a ranking scraper served over HTTP.                         *)
(*                                                                         *)
(* Two programs live in the repository:                                    *)
(*   - the cached server (src/unnamed/part_000): one background task       *)
(*     refreshes the global categorizedResults, handleRequest returns it;  *)
(*   - the per-request server (src/main.go): every request fetches the     *)
(*     price maps, visits the page and answers from request-local state.   *)
(*                                                                         *)
(* Go strings that the code transforms (names, symbols, file names) are    *)
(* sequences of one-character strings; strings the code only copies are    *)
(* TLA+ strings.                                                           *)
(***************************************************************************)
EXTENDS Integers, Sequences, FiniteSets, TLC

VARIABLES
    pc,                 \* cached server: position of the updateDataRegularly goroutine
    page,               \* cached server: the blocks of the document of the latest Visit
    visitErr,           \* cached server: err of the latest Visit is not nil
    allResults,         \* cached server: allResults of the latest updateDataFromBinance
    categorizedResults, \* cached server: the global map (Nil before the first store)
    files,              \* the images/ directory: names of the files that exist
    resp,               \* the HTTP response written by the latest step, NoResp otherwise
    logged,             \* the kinds of log lines written by the latest step
    imgLog,             \* image resolutions made so far (SpecImg)
    running,            \* per-request server: the process has not exited
    req,                \* per-request server: the locals of each request in flight
    catIn,              \* input of categorizeResults (SpecCat)
    catOut,             \* output of categorizeResults (SpecCat)
    fmtIn,              \* input of formatChange (SpecFmt)
    fmtOut,             \* output of formatChange (SpecFmt)
    mutex               \* cached server: who holds the global mutex ("free": nobody)

vars == <<pc, page, visitErr, allResults, categorizedResults, files, resp, logged,
          imgLog, running, req, catIn, catOut, fmtIn, fmtOut, mutex>>

-----------------------------------------------------------------------------
(* Bounds and program constants *)

\* Largest number of filler blocks on a page.
MaxFill == 44
\* Longest input of categorizeResults in SpecCat.
MaxN == 45
\* Longest log of image resolutions in SpecImg.
MaxCalls == 2
\* Longest input of formatChange in SpecFmt.
MaxLen == 3

\* Group size of categorizeResults.
BucketSize == 10

\* A Go map value: the nil map, or a map with the entries m.
Nil == [isNil |-> TRUE, m |-> <<>>]
Map(m) == [isNil |-> FALSE, m |-> m]

\* No response was written.
NoResp == [status |-> 0, body |-> Nil, to |-> 0]

\* categorizeResults was not applied yet (SpecCat).
NoGroups == [done |-> FALSE, groups |-> <<>>]

\* formatChange was not applied yet (SpecFmt).
NoText == [done |-> FALSE, out |-> <<>>]

Labels == {"Populares", "Ganadores", "Perdedores", "MayorVolumen"}

scheme == "http"
host == "localhost:8080"

-----------------------------------------------------------------------------
(* Strings *)

Lower == <<"a","b","c","d","e","f","g","h","i","j","k","l","m",
           "n","o","p","q","r","s","t","u","v","w","x","y","z">>
Upper == <<"A","B","C","D","E","F","G","H","I","J","K","L","M",
           "N","O","P","Q","R","S","T","U","V","W","X","Y","Z">>
Digit == <<"0","1","2","3","4","5","6","7","8","9">>

\* the upper-case letter of each lower-case letter
UpperOf == [c \in { Lower[i] : i \in 1..Len(Lower) } |->
               Upper[CHOOSE i \in 1..Len(Lower) : Lower[i] = c]]

ToUpperChar(c) == IF c \in DOMAIN UpperOf THEN UpperOf[c] ELSE c

\* strings.ToUpper
ToUpper(s) == [i \in 1..Len(s) |-> ToUpperChar(s[i])]

\* strings.ReplaceAll(s, old, new) for one-character old and new
ReplaceAll(s, old, new) == [i \in 1..Len(s) |-> IF s[i] = old THEN new ELSE s[i]]

RECURSIVE Join(_)
\* the Go string of a character sequence
Join(s) == IF s = <<>> THEN "" ELSE s[1] \o Join(Tail(s))

-----------------------------------------------------------------------------
(* The page: the div.css-1qyk0y6 blocks of the ranking page, in document order *)

Block(index, img, name, price, change) ==
    [index |-> index, img |-> img, name |-> name, price |-> price, change |-> change]

\* A block without a name, blocks named Btc and btc with and without an image,
\* a block whose name has a space.
NoName  == Block("1", "https://bin.example/e.png", <<>>, "9.10", "+1.00%")
BtcImg  == Block("2", "https://bin.example/btc.png", <<"B","t","c">>, "65000.00", "+3.50%")
BtcText == Block("3", "", <<"b","t","c">>, "64999.00", "-2.00%")
Spaced  == Block("4", "https://bin.example/eh.png", <<"e"," ","h">>, "", "")
BtcAgain == Block("", "https://bin.example/btc2.png", <<"B","t","c">>, "1.00", "0.00%")

FreeBlocks == {NoName, BtcImg, BtcText, Spaced, BtcAgain}

Filler(i) ==
    Block(Join(<<Digit[(i \div 10) + 1], Digit[(i % 10) + 1]>>), "",
          <<"k", Digit[(i \div 10) + 1], Digit[(i % 10) + 1]>>,
          Join(<<Digit[(i % 10) + 1], ".", "5">>), "+0.10%")

Fillers(k) == [i \in 1..k |-> Filler(i)]

\* What a page starts with: nothing, one of the blocks above, or two of them
\* (the same file name twice; a block without a name before one with a name).
Heads ==
    << <<>>, <<NoName>>, <<BtcImg>>, <<BtcText>>, <<Spaced>>, <<BtcAgain>>,
       <<BtcImg, BtcAgain>>, <<NoName, Spaced>> >>

\* Filler counts around the four-bucket threshold and the forty-entry cut.
FillCounts ==
    << 0, 3 * BucketSize - 1, 4 * BucketSize - 1, MaxFill >>

\* The documents the page source can serve, numbered.
Pages ==
    [p \in 1..(Len(Heads) * Len(FillCounts)) |->
        Heads[((p - 1) \div Len(FillCounts)) + 1]
            \o Fillers(FillCounts[((p - 1) % Len(FillCounts)) + 1])]

-----------------------------------------------------------------------------
(* Image cache *)

\* What the environment does to one image resolution: os.Stat failing with an
\* error other than "not exist", or the step at which downloadImage ends.
Outcomes == {"statErr", "getErr", "mkdirErr", "createErr", "copyErr", "ok"}

\* imageExists with the test inverted.
imageExistsInverted(fs, filename, oc) == ~(oc = "statErr" \/ filename \in fs)

\* imageExists: !os.IsNotExist(err) of os.Stat("images/" + filename)
imageExists(fs, filename, oc) == oc = "statErr" \/ filename \in fs

\* downloadImage: the files after the call; the file exists once os.Create
\* succeeded, also when io.Copy fails afterwards.
downloadImage(fs, filename, oc) ==
    IF oc \in {"getErr", "mkdirErr", "createErr"} THEN fs ELSE fs \cup {filename}

\* downloadImage: the log line of the call, if any
downloadLog(oc) == IF oc = "ok" THEN {} ELSE {"image"}

\* The file name with the spaces of the name kept.
imageFilenameAsWritten(name) == name \o <<".", "j", "p", "g">>

\* imageFilename := strings.ReplaceAll(info.Name, " ", "_") + ".jpg"
imageFilename(name) == ReplaceAll(name, " ", "_") \o <<".", "j", "p", "g">>

\* if !imageExists(imageFilename) { downloadImage(info.Image, imageFilename) }
resolveImage(fs, filename, oc) ==
    IF imageExists(fs, filename, oc)
    THEN [files |-> fs, fetched |-> FALSE, log |-> {}]
    ELSE [files |-> downloadImage(fs, filename, oc), fetched |-> TRUE,
          log |-> downloadLog(oc)]

localImage(sch, hst, filename) == sch \o "://" \o hst \o "/images/" \o Join(filename)

-----------------------------------------------------------------------------
(* Price source adapter (src/main.go) *)

IsDigit(c) == \E i \in 1..Len(Digit) : Digit[i] = c
DigitVal(c) == (CHOOSE i \in 1..Len(Digit) : Digit[i] = c) - 1

RECURSIVE DigitsVal(_)
\* the number a sequence of digits writes
DigitsVal(ds) ==
    IF ds = <<>> THEN 0
    ELSE DigitsVal(SubSeq(ds, 1, Len(ds) - 1)) * 10 + DigitVal(ds[Len(ds)])

RECURSIVE NatDigits(_)
\* the digits of a natural number, without leading zeros ("0" for 0)
NatDigits(n) == IF n < 10 THEN <<Digit[n + 1]>> ELSE NatDigits(n \div 10) \o <<Digit[(n % 10) + 1]>>

\* strconv.ParseFloat(change, 64) on a text without exponent, base prefix or
\* underscore: [sign] digits [. digits] with at least one digit is the number
\* neg, num / 10^scale; nan, and [sign] inf or infinity, in any letter case,
\* are the special values; anything else is a syntax error.
parseFloat(s) ==
    LET signed == s # <<>> /\ s[1] \in {"+", "-"}
        body   == IF signed THEN Tail(s) ELSE s
        neg    == signed /\ s[1] = "-"
        dots   == { i \in 1..Len(body) : body[i] = "." }
        ip     == IF dots = {} THEN body ELSE SubSeq(body, 1, (CHOOSE i \in dots : TRUE) - 1)
        fp     == IF dots = {} THEN <<>>
                  ELSE SubSeq(body, (CHOOSE i \in dots : TRUE) + 1, Len(body))
        ok     == /\ Cardinality(dots) <= 1
                  /\ Len(ip) + Len(fp) > 0
                  /\ \A i \in 1..Len(ip) : IsDigit(ip[i])
                  /\ \A i \in 1..Len(fp) : IsDigit(fp[i])
    IN  IF ToUpper(s) = <<"N", "A", "N">>
        THEN [err |-> FALSE, special |-> "nan", neg |-> FALSE, num |-> 0, scale |-> 0]
        ELSE IF ToUpper(body) \in {<<"I", "N", "F">>,
                                   <<"I", "N", "F", "I", "N", "I", "T", "Y">>}
        THEN [err |-> FALSE, special |-> "inf", neg |-> neg, num |-> 0, scale |-> 0]
        ELSE IF ok
        THEN [err |-> FALSE, special |-> "", neg |-> neg,
              num |-> DigitsVal(ip \o fp), scale |-> Len(fp)]
        ELSE [err |-> TRUE, special |-> "", neg |-> FALSE, num |-> 0, scale |-> 0]

RECURSIVE Pow10(_)
Pow10(k) == IF k = 0 THEN 1 ELSE 10 * Pow10(k - 1)

\* fmt.Sprintf("%.2f", v): NaN, +Inf and -Inf for the special values;
\* otherwise v rounded to hundredths, to the nearest (a value halfway between
\* two hundredths is rounded as its float64 falls, which is not computed
\* here: such a value is rounded to the even hundredth).
sprintf2f(v) ==
    LET hundredths ==
            IF v.scale <= 2 THEN v.num * Pow10(2 - v.scale)
            ELSE LET d == Pow10(v.scale - 2)
                     q == v.num \div d
                     r == v.num % d
                 IN  IF 2 * r > d \/ (2 * r = d /\ q % 2 = 1) THEN q + 1 ELSE q
        frac == hundredths % 100
    IN  IF v.special = "nan" THEN <<"N", "a", "N">>
        ELSE IF v.special = "inf"
        THEN (IF v.neg THEN <<"-">> ELSE <<"+">>) \o <<"I", "n", "f">>
        ELSE (IF v.neg THEN <<"-">> ELSE <<>>)
                \o NatDigits(hundredths \div 100)
                \o <<".", Digit[(frac \div 10) + 1], Digit[(frac % 10) + 1]>>

\* changeValue > 0
isPositive(v) == ~v.neg /\ (v.special = "inf" \/ (v.special = "" /\ v.num > 0))

\* formatChange with the sign added to every value that is not negative.
formatChangeNotNegative(change) ==
    LET v == parseFloat(change)
    IN  IF v.err THEN change
        ELSE IF ~v.neg THEN <<"+">> \o sprintf2f(v) \o <<"%">>
             ELSE sprintf2f(v) \o <<"%">>

formatChange(change) ==
    LET v == parseFloat(change)
    IN  IF v.err THEN change
        ELSE IF isPositive(v)
             THEN <<"+">> \o sprintf2f(v) \o <<"%">>
             ELSE sprintf2f(v) \o <<"%">>

\* formatChange: the log line of the call, if any
formatLog(change) == IF parseFloat(change).err THEN {"parse"} ELSE {}

USDT == <<"U", "S", "D", "T">>

\* map lookup: the zero value for a missing key
Lookup(m, k) == IF k \in DOMAIN m THEN m[k] ELSE ""

\* The position of the last item of data with this symbol.
LastOf(data, symbol) ==
    CHOOSE i \in 1..Len(data) :
        /\ data[i].Symbol = symbol
        /\ \A j \in (i + 1)..Len(data) : data[j].Symbol # symbol

\* for _, item := range priceData { prices[item.Symbol] = item.Price }
pricesOf(priceData) ==
    [k \in { priceData[i].Symbol : i \in 1..Len(priceData) } |->
        priceData[LastOf(priceData, k)].Price]

\* for _, item := range changeData { changes[item.Symbol] = formatChange(...) }
changesOf(changeData) ==
    [k \in { changeData[i].Symbol : i \in 1..Len(changeData) } |->
        Join(formatChange(changeData[LastOf(changeData, k)].PriceChangePercent))]

\* What an endpoint does to one request: http.Get fails ("getErr"), the body does
\* not decode ("decodeErr"), or the body decodes to data ("ok").
Failed(oc) == oc \in {"getErr", "decodeErr"}

\* getPricesAndChanges: the two maps, and the log lines, given what the price
\* endpoint (po, priceData) and the 24h endpoint (co, changeData) do.
getPricesAndChanges(po, priceData, co, changeData) ==
    IF Failed(po)
    THEN [prices |-> <<>>, changes |-> <<>>, log |-> {"prices"}]
    ELSE IF Failed(co)
         THEN [prices |-> pricesOf(priceData), changes |-> <<>>, log |-> {"changes"}]
         ELSE [prices |-> pricesOf(priceData), changes |-> changesOf(changeData),
               log |-> {}]

-----------------------------------------------------------------------------
(* Extraction *)

CryptoInfo(index, image, name, price, change) ==
    [Index |-> index, Image |-> image, Name |-> name, Price |-> price,
     Change24h |-> change]

\* The callback going on for every block.
hasNameAlways(b) == TRUE

\* if info.Name != "": the callback goes on for a block with a name only.
HasName(b) == b.name # <<>>

\* if info.Image != "": the image is resolved for a block with an image URL only.
HasImage(b) == b.img # ""

\* The positions of a document whose block reaches the image resolution, in
\* document order.
ImgPositions(doc) == { i \in 1..Len(doc) : HasName(doc[i]) /\ HasImage(doc[i]) }
ImgSequence(doc) == SelectSeq([i \in 1..Len(doc) |-> i], LAMBDA i : i \in ImgPositions(doc))

RECURSIVE resolveFrom(_, _, _, _, _)
\* The image resolutions of the callbacks on a document, from the k-th one on:
\* st is [files, log], env[i] is what the environment does at position i.
resolveFrom(doc, pos, k, st, env) ==
    IF k > Len(pos) THEN st
    ELSE LET r == resolveImage(st.files, imageFilename(doc[pos[k]].name), env[pos[k]])
         IN  resolveFrom(doc, pos, k + 1,
                         [files |-> r.files, log |-> st.log \cup r.log], env)

\* e.ForEach, the image cache: the callback resolves the image of every block
\* with a name and an image, in document order.
resolveImages(doc, fs, env) ==
    resolveFrom(doc, ImgSequence(doc), 1, [files |-> fs, log |-> {}], env)

\* The info the ForEach callback of updateDataFromBinance appends for a block
\* with a name: price and change are the texts of the block.
infoCached(b) ==
    CryptoInfo(b.index,
               IF HasImage(b) THEN localImage(scheme, host, imageFilename(b.name)) ELSE b.img,
               b.name, b.price, b.change)

\* e.ForEach in updateDataFromBinance, allResults: the callback appends the
\* info of every block with a name, in document order.
forEachCached(doc) ==
    LET named == SelectSeq(doc, HasName)
    IN  [j \in 1..Len(named) |-> infoCached(named[j])]

\* The symbol without the conversion to upper case.
symbolAsWritten(name) == name \o USDT

\* symbol := strings.ToUpper(info.Name) + "USDT"
symbolOf(name) == ToUpper(name) \o USDT

\* The info the ForEach callback of handleRequest (src/main.go) appends for a
\* block with a name: price and change are joined from the maps.
infoJoined(b, prices, changes, sch, hst) ==
    CryptoInfo(b.index,
               IF HasImage(b) THEN localImage(sch, hst, imageFilename(b.name)) ELSE b.img,
               b.name, Lookup(prices, symbolOf(b.name)), Lookup(changes, symbolOf(b.name)))

\* e.ForEach in handleRequest (src/main.go), allResults
forEachJoined(doc, prices, changes, sch, hst) ==
    LET named == SelectSeq(doc, HasName)
    IN  [j \in 1..Len(named) |-> infoJoined(named[j], prices, changes, sch, hst)]

-----------------------------------------------------------------------------
(* Categorization *)

RECURSIVE categorizeLoop(_, _, _)
categorizeLoop(all, i, groupedResults) ==
    IF i < Len(all)
    THEN LET end0 == i + BucketSize
             end  == IF end0 > Len(all) THEN Len(all) ELSE end0
         IN  categorizeLoop(all, i + BucketSize,
                            Append(groupedResults, SubSeq(all, i + 1, end)))
    ELSE groupedResults

\* categorizeResults keeping the full groups only.
categorizeFullOnly(all) ==
    [k \in 1..(Len(all) \div BucketSize) |->
        SubSeq(all, (k - 1) * BucketSize + 1, k * BucketSize)]

categorizeResults(all) == categorizeLoop(all, 0, <<>>)

\* The map literal indexes groupedResults[0..3]: it panics with fewer than 4 groups.
literalPanics(groupedResults) == Len(groupedResults) < 4

\* The map literal with two labels exchanged.
mapLiteralSwapped(groupedResults) ==
  Map([l \in Labels |->
        CASE l = "Populares"    -> groupedResults[1]
          [] l = "Ganadores"    -> groupedResults[3]
          [] l = "Perdedores"   -> groupedResults[2]
          [] l = "MayorVolumen" -> groupedResults[4]])

mapLiteral(groupedResults) ==
  Map([l \in Labels |->
        CASE l = "Populares"    -> groupedResults[1]
          [] l = "Ganadores"    -> groupedResults[2]
          [] l = "Perdedores"   -> groupedResults[3]
          [] l = "MayorVolumen" -> groupedResults[4]])

-----------------------------------------------------------------------------
(* What the price endpoints and the clients send *)

BTCUSDT == <<"B", "T", "C", "U", "S", "D", "T">>

Quote(symbol, price) == [Symbol |-> symbol, Price |-> price]
Tick(symbol, pct) == [Symbol |-> symbol, PriceChangePercent |-> pct]

FillerSymbol(i) == ToUpper(Filler(i).name) \o USDT

PriceFeeds ==
    { <<>>,
      <<Quote(BTCUSDT, "65000.00")>>,
      <<Quote(BTCUSDT, "1.00"), Quote(BTCUSDT, "65000.00"),
        Quote(<<"E", " ", "H", "U", "S", "D", "T">>, "0.25")>>
        \o [i \in 1..MaxFill |-> Quote(FillerSymbol(i), Filler(i).price)] }

ChangeFeeds ==
    { <<>>,
      <<Tick(BTCUSDT, <<"3", ".", "5">>)>>,
      <<Tick(BTCUSDT, <<"-", "2">>),
        Tick(<<"E", " ", "H", "U", "S", "D", "T">>, <<"a", "b", "c">>)>>
        \o [i \in 1..MaxFill |-> Tick(FillerSymbol(i), <<"0", ".", Digit[(i % 10) + 1]>>)] }

\* What the price endpoint, and the 24h endpoint, can do to one request.
PriceOptions ==
    { [oc |-> oc, data |-> <<>>] : oc \in {"getErr", "decodeErr"} }
        \cup { [oc |-> "ok", data |-> d] : d \in PriceFeeds }
ChangeOptions ==
    { [oc |-> oc, data |-> <<>>] : oc \in {"getErr", "decodeErr"} }
        \cup { [oc |-> "ok", data |-> d] : d \in ChangeFeeds }

\* The calls of getPricesAndChanges: what the endpoints do, and what it returns.
Fetches ==
    { [po |-> p.oc, pn |-> Len(p.data), co |-> c.oc, cn |-> Len(c.data),
       g |-> getPricesAndChanges(p.oc, p.data, c.oc, c.data)] :
        p \in PriceOptions, c \in ChangeOptions }

\* c.Request.TLS and c.Request.Host of a request
RequestInputs ==
    { [tls |-> FALSE, host |-> "localhost:8080"],
      [tls |-> TRUE, host |-> "backend-market.tssw.cl"] }

AllReq == {1, 2}

IdleReq ==
    [pc |-> "idle", tls |-> FALSE, host |-> "", po |-> "ok", pn |-> 0, co |-> "ok",
     cn |-> 0, prices |-> <<>>, changes |-> <<>>, page |-> <<>>, all |-> <<>>]

-----------------------------------------------------------------------------
(* The cached server (src/unnamed/part_000) *)

Filenames == { imageFilename(b.name) : b \in { x \in FreeBlocks : x.name # <<>> /\ x.img # "" } }

\* A response: its status, its body, and the request it answers (0: a client of
\* the cached server).
Response(status, body, to) == [status |-> status, body |-> body, to |-> to]

\* The process runs until a panic of the refresh goroutine ends it.
Alive == pc # "crashed"

\* updateDataFromBinance beginning with the allResults of the cycle before.
VisitStartKeeping ==
    /\ pc = "ready"
    /\ pc' = "visiting"
    /\ resp' = NoResp
    /\ logged' = {}
    /\ UNCHANGED <<mutex, fmtIn, fmtOut, page, visitErr, allResults, categorizedResults,
                   files, imgLog, running, req, catIn, catOut>>

\* updateDataFromBinance begins: the collector is created, allResults is a
\* new nil slice, Visit is called and has not returned.
VisitStart ==
    /\ pc = "ready"
    /\ pc' = "visiting"
    /\ allResults' = <<>>
    /\ resp' = NoResp
    /\ logged' = {}
    /\ UNCHANGED <<mutex, fmtIn, fmtOut, page, visitErr, categorizedResults, files, imgLog,
                   running, req, catIn, catOut>>

\* collyCollector.Visit returns an error: no callback ran, the error is logged.
VisitFail ==
    /\ pc = "visiting"
    /\ pc' = "visited"
    /\ page' = <<>>
    /\ visitErr' = TRUE
    /\ logged' = {"visit"}
    /\ resp' = NoResp
    /\ UNCHANGED <<mutex, fmtIn, fmtOut, allResults, categorizedResults, files, imgLog,
                   running, req, catIn, catOut>>

\* What updateDataFromBinance extracts from each document.
CachedInfos == [p \in DOMAIN Pages |-> forEachCached(Pages[p])]

\* The page arrived and the callback ran on every block in order, each append
\* under the mutex.  With a named block on the page the goroutine is now
\* inside the last append, between mutex.Lock() and mutex.Unlock(); without
\* one the mutex was never taken and Visit returns nil.
VisitOk ==
    /\ pc = "visiting"
    /\ \E p \in DOMAIN Pages :
         \E env \in [ImgPositions(Pages[p]) -> Outcomes] :
            LET io == resolveImages(Pages[p], files, env)
            IN  /\ page' = Pages[p]
                /\ allResults' = allResults \o CachedInfos[p]
                /\ files' = io.files
                /\ logged' = io.log
                /\ pc' = IF CachedInfos[p] = <<>> THEN "visited" ELSE "appending"
                /\ mutex' = IF CachedInfos[p] = <<>> THEN "free" ELSE "refresh"
    /\ visitErr' = FALSE
    /\ resp' = NoResp
    /\ UNCHANGED <<fmtIn, fmtOut, categorizedResults, imgLog, running, req, catIn, catOut>>

\* mutex.Unlock() after the last append; Visit returns nil.
Unlock ==
    /\ pc = "appending"
    /\ mutex = "refresh"
    /\ mutex' = "free"
    /\ pc' = "visited"
    /\ resp' = NoResp
    /\ logged' = {}
    /\ UNCHANGED <<fmtIn, fmtOut, page, visitErr, allResults, categorizedResults, files,
                   imgLog, running, req, catIn, catOut>>

\* categorizeResults, then the evaluation of the map literal panics: nothing
\* recovers a panic of this goroutine, the process exits.
CategorizePanic ==
    /\ pc = "visited"
    /\ literalPanics(categorizeResults(allResults))
    /\ pc' = "crashed"
    /\ resp' = NoResp
    /\ logged' = {"panic"}
    /\ UNCHANGED <<mutex, fmtIn, fmtOut, page, visitErr, allResults, categorizedResults, files, imgLog,
                   running, req, catIn, catOut>>

\* categorizeResults, then the map literal is built and is about to be stored.
Categorize ==
    /\ pc = "visited"
    /\ ~literalPanics(categorizeResults(allResults))
    /\ pc' = "storing"
    /\ resp' = NoResp
    /\ logged' = {}
    /\ UNCHANGED <<mutex, fmtIn, fmtOut, page, visitErr, allResults, categorizedResults, files, imgLog,
                   running, req, catIn, catOut>>

\* The map being assigned by the running cycle.
Pending == mapLiteral(categorizeResults(allResults))

\* The assignment storing the nil map.
StoreReset ==
    /\ pc = "storing"
    /\ categorizedResults' = Nil
    /\ pc' = "sleeping"
    /\ resp' = NoResp
    /\ logged' = {}
    /\ UNCHANGED <<mutex, fmtIn, fmtOut, page, visitErr, allResults, files, imgLog, running,
                   req, catIn, catOut>>

\* categorizedResults = map[string][]CryptoInfo{...}; updateDataFromBinance
\* returns and time.Sleep begins.
Store ==
    /\ pc = "storing"
    /\ categorizedResults' = Pending
    /\ pc' = "sleeping"
    /\ resp' = NoResp
    /\ logged' = {}
    /\ UNCHANGED <<mutex, fmtIn, fmtOut, page, visitErr, allResults, files, imgLog, running, req, catIn, catOut>>

\* time.Sleep returns, the loop of updateDataRegularly goes round.
Wake ==
    /\ pc = "sleeping"
    /\ pc' = "ready"
    /\ resp' = NoResp
    /\ logged' = {}
    /\ UNCHANGED <<mutex, fmtIn, fmtOut, page, visitErr, allResults, categorizedResults, files, imgLog,
                   running, req, catIn, catOut>>

\* What a map that is still being written shows to a goroutine that reads it
\* without synchronisation: any part of its entries.
PartialViews(v) == { Map([l \in L |-> v.m[l]]) : L \in SUBSET Labels }

\* The values an unsynchronised read of categorizedResults can yield: the
\* variable's value, and, while the refresh goroutine executes the assignment,
\* the map being assigned, whole or in part (the read races with the write).
ReadValues ==
    IF pc = "storing"
    THEN {categorizedResults} \cup PartialViews(Pending)
    ELSE {categorizedResults}

\* handleRequest waiting for the mutex before it reads.
handleRequestLocked ==
    /\ Alive
    /\ mutex = "free"
    /\ \E v \in ReadValues : resp' = Response(200, v, 0)
    /\ logged' = {}
    /\ UNCHANGED <<mutex, fmtIn, fmtOut, pc, page, visitErr, allResults, categorizedResults,
                   files, imgLog, running, req, catIn, catOut>>

\* handleRequest of the cached server: c.JSON(http.StatusOK, categorizedResults)
handleRequest ==
    /\ Alive
    /\ \E v \in ReadValues : resp' = Response(200, v, 0)
    /\ logged' = {}
    /\ UNCHANGED <<mutex, fmtIn, fmtOut, pc, page, visitErr, allResults, categorizedResults, files, imgLog,
                   running, req, catIn, catOut>>

InitBase ==
    /\ pc = "ready"
    /\ page = <<>>
    /\ visitErr = FALSE
    /\ allResults = <<>>
    /\ categorizedResults = Nil
    /\ files \in SUBSET Filenames
    /\ resp = NoResp
    /\ logged = {}
    /\ imgLog = <<>>
    /\ running = TRUE
    /\ req = [r \in AllReq |-> IdleReq]
    /\ mutex = "free"

Init ==
    /\ InitBase
    /\ catIn = <<>>
    /\ catOut = NoGroups
    /\ fmtIn = <<>>
    /\ fmtOut = NoText

Next ==
    \/ VisitStart
    \/ VisitFail
    \/ VisitOk
    \/ Unlock
    \/ CategorizePanic
    \/ Categorize
    \/ Store
    \/ Wake
    \/ handleRequest

Spec == Init /\ [][Next]_vars

\* A step of the refresh goroutine.
Refresh ==
    \/ VisitStart
    \/ VisitFail
    \/ VisitOk
    \/ Unlock
    \/ CategorizePanic
    \/ Categorize
    \/ Store
    \/ Wake

\* The cached server with a scheduler that keeps running the refresh
\* goroutine while it can take a step, every fetch and every sleep returning.
SpecLive == Init /\ [][Next]_vars /\ WF_vars(Refresh)

-----------------------------------------------------------------------------
(* categorizeResults on its own *)

Entry(j) == CryptoInfo(Filler(j).index, "", Filler(j).name, Filler(j).price, Filler(j).change)

\* Inputs of every length up to MaxN: distinct entries from two starting
\* points, and one entry repeated.
CatInputs == { [i \in 1..n |-> Entry(i * m + d)] : n \in 0..MaxN, m \in 0..1, d \in 1..2 }

InitCat ==
    /\ InitBase
    /\ catIn \in CatInputs
    /\ catOut = NoGroups
    /\ fmtIn = <<>>
    /\ fmtOut = NoText

CategorizeCall ==
    /\ ~catOut.done
    /\ catOut' = [done |-> TRUE, groups |-> categorizeResults(catIn)]
    /\ UNCHANGED <<mutex, fmtIn, fmtOut, pc, page, visitErr, allResults, categorizedResults, files, resp, logged,
                   imgLog, running, req, catIn>>

NextCat == CategorizeCall

SpecCat == InitCat /\ [][NextCat]_vars

-----------------------------------------------------------------------------
(* The image resolution on its own *)

\* One resolution: the file, what os.Stat and the download did (oc), whether
\* the network was asked (fetched), whether the file exists afterwards.
ImgCall(filename, oc, r) ==
    [file |-> filename, oc |-> oc, fetched |-> r.fetched, present |-> filename \in r.files]

\* if !imageExists(imageFilename) { downloadImage(info.Image, imageFilename) }
\* for a block with a name and an image.
ResolveCall ==
    /\ Len(imgLog) < MaxCalls
    /\ \E fn \in Filenames, oc \in Outcomes :
          LET r == resolveImage(files, fn, oc)
          IN  /\ files' = r.files
              /\ logged' = r.log
              /\ imgLog' = Append(imgLog, ImgCall(fn, oc, r))
    /\ UNCHANGED <<mutex, fmtIn, fmtOut, pc, page, visitErr, allResults, categorizedResults, resp, running, req,
                   catIn, catOut>>

NextImg == ResolveCall

SpecImg == Init /\ [][NextImg]_vars

-----------------------------------------------------------------------------
(* formatChange on its own *)

\* The characters of the inputs: digits, the point, the signs, letters that
\* spell nan and inf, and letters that spell no number.
FmtAlphabet == {"0", "2", "3", "5", ".", "-", "+", "a", "b", "c", "n", "i", "f"}

\* Every text over the alphabet up to MaxLen characters.
FmtInputs == UNION { [1..n -> FmtAlphabet] : n \in 0..MaxLen }

InitFmt ==
    /\ InitBase
    /\ catIn = <<>>
    /\ catOut = NoGroups
    /\ fmtIn \in FmtInputs
    /\ fmtOut = NoText

FormatCall ==
    /\ ~fmtOut.done
    /\ fmtOut' = [done |-> TRUE, out |-> formatChange(fmtIn)]
    /\ logged' = formatLog(fmtIn)
    /\ UNCHANGED <<mutex, fmtIn, pc, page, visitErr, allResults, categorizedResults, files,
                   resp, imgLog, running, req, catIn, catOut>>

NextFmt == FormatCall

SpecFmt == InitFmt /\ [][NextFmt]_vars

-----------------------------------------------------------------------------
(* The per-request server (src/main.go) *)

\* A request arrives: handleRequest creates the collector and calls
\* getPricesAndChanges, which has not returned.
ReqStart(r) ==
    /\ running
    /\ req[r].pc = "idle"
    /\ \E in \in RequestInputs :
          req' = [req EXCEPT ![r].pc = "fetching", ![r].tls = in.tls, ![r].host = in.host]
    /\ logged' = {}
    /\ resp' = NoResp
    /\ UNCHANGED <<mutex, fmtIn, fmtOut, pc, page, visitErr, allResults, categorizedResults,
                   files, imgLog, running, catIn, catOut>>

\* getPricesAndChanges returns; the callbacks are registered and Visit is
\* called, which has not returned.
ReqFetch(r) ==
    /\ running
    /\ req[r].pc = "fetching"
    /\ \E f \in Fetches :
          /\ req' = [req EXCEPT ![r] =
                        [pc |-> "fetched", tls |-> req[r].tls, host |-> req[r].host,
                         po |-> f.po, pn |-> f.pn, co |-> f.co, cn |-> f.cn,
                         prices |-> f.g.prices, changes |-> f.g.changes,
                         page |-> <<>>, all |-> <<>>]]
          /\ logged' = f.g.log
    /\ resp' = NoResp
    /\ UNCHANGED <<mutex, fmtIn, fmtOut, pc, page, visitErr, allResults, categorizedResults,
                   files, imgLog, running, catIn, catOut>>

\* collyCollector.Visit returns an error: log.Fatal ends the process.
ReqVisitFatal(r) ==
    /\ running
    /\ req[r].pc = "fetched"
    /\ running' = FALSE
    /\ logged' = {"fatal"}
    /\ resp' = NoResp
    /\ UNCHANGED <<mutex, fmtIn, fmtOut, pc, page, visitErr, allResults, categorizedResults, files, imgLog,
                   req, catIn, catOut>>

\* scheme := "http"; if c.Request.TLS != nil { scheme = "https" }
requestScheme(tls) == IF tls THEN "https" ELSE "http"

\* collyCollector.Visit returns nil: the callback ran on every block in order.
ReqVisitOk(r, pages) ==
    /\ running
    /\ req[r].pc = "fetched"
    /\ \E p \in pages :
         LET all == forEachJoined(Pages[p], req[r].prices, req[r].changes,
                                  requestScheme(req[r].tls), req[r].host)
         IN  \E env \in [ImgPositions(Pages[p]) -> Outcomes] :
                LET io == resolveImages(Pages[p], files, env)
                IN  /\ req' = [req EXCEPT ![r].pc = "visited", ![r].page = Pages[p],
                                              ![r].all = all]
                    /\ files' = io.files
                    /\ logged' = io.log
    /\ resp' = NoResp
    /\ UNCHANGED <<mutex, fmtIn, fmtOut, pc, page, visitErr, allResults, categorizedResults, imgLog,
                   running, catIn, catOut>>

\* The map literal panics: gin's Recovery middleware (gin.Default) answers 500.
ReqPanic(r) ==
    /\ running
    /\ req[r].pc = "visited"
    /\ literalPanics(categorizeResults(req[r].all))
    /\ resp' = Response(500, Nil, r)
    /\ logged' = {"panic"}
    /\ req' = [req EXCEPT ![r].pc = "done"]
    /\ UNCHANGED <<mutex, fmtIn, fmtOut, pc, page, visitErr, allResults, categorizedResults, files, imgLog,
                   running, catIn, catOut>>

\* The response built from the entry list another request appended to last,
\* as with one entry list for all requests.
ReqRespondShared(r) ==
    LET others == { q \in AllReq \ {r} : req[q].pc \in {"visited", "done"} }
        all == IF others = {} THEN req[r].all ELSE req[CHOOSE q \in others : TRUE].all
    IN  /\ running
        /\ req[r].pc = "visited"
        /\ ~literalPanics(categorizeResults(all))
        /\ resp' = Response(200, mapLiteral(categorizeResults(all)), r)
        /\ logged' = {}
        /\ req' = [req EXCEPT ![r].pc = "done"]
        /\ UNCHANGED <<mutex, fmtIn, fmtOut, pc, page, visitErr, allResults,
                       categorizedResults, files, imgLog, running, catIn, catOut>>

\* c.JSON(http.StatusOK, categorizedResults)
ReqRespond(r) ==
    /\ running
    /\ req[r].pc = "visited"
    /\ ~literalPanics(categorizeResults(req[r].all))
    /\ resp' = Response(200, mapLiteral(categorizeResults(req[r].all)), r)
    /\ logged' = {}
    /\ req' = [req EXCEPT ![r].pc = "done"]
    /\ UNCHANGED <<mutex, fmtIn, fmtOut, pc, page, visitErr, allResults, categorizedResults, files, imgLog,
                   running, catIn, catOut>>

\* The requests served: one at a time.
Req == {1}

NextReq ==
    \/ \E r \in Req : ReqStart(r)
    \/ \E r \in Req : ReqFetch(r)
    \/ \E r \in Req : ReqVisitFatal(r)
    \/ \E r \in Req : ReqVisitOk(r, DOMAIN Pages)
    \/ \E r \in Req : ReqPanic(r)
    \/ \E r \in Req : ReqRespond(r)

SpecReq == Init /\ [][NextReq]_vars

-----------------------------------------------------------------------------
(* The two servers side by side, each with a fetch that may not return *)

\* Two documents: one without blocks, one with forty named blocks.
HangPages ==
    { p \in DOMAIN Pages :
        Pages[p] \in {<<>>, <<BtcImg>> \o Fillers(4 * BucketSize - 1)} }

NextHang ==
    \/ Next /\ page' \in { Pages[p] : p \in HangPages }
    \/ \E r \in Req : ReqStart(r)
    \/ \E r \in Req : ReqFetch(r) /\ req'[r].po = "ok" /\ req'[r].pn = 1
                                  /\ req'[r].co = "ok" /\ req'[r].cn = 1
    \/ \E r \in Req : ReqVisitFatal(r)
    \/ \E r \in Req : ReqVisitOk(r, HangPages)
    \/ \E r \in Req : ReqPanic(r)
    \/ \E r \in Req : ReqRespond(r)

SpecHang == Init /\ [][NextHang]_vars

-----------------------------------------------------------------------------
(* The per-request server with two requests in flight *)

\* Three documents: one without blocks, one with forty named blocks, one
\* with more.
ConcPages ==
    { p \in DOMAIN Pages :
        Pages[p] \in {<<>>, <<BtcImg>> \o Fillers(4 * BucketSize - 1),
                      <<BtcText>> \o Fillers(MaxFill)} }

\* Both endpoints answer, with no item or with one item each.
NextConc ==
    \/ \E r \in AllReq : ReqStart(r)
    \/ \E r \in AllReq : ReqFetch(r) /\ req'[r].po = "ok" /\ req'[r].co = "ok"
                                     /\ req'[r].pn <= 1 /\ req'[r].cn = req'[r].pn
    \/ \E r \in AllReq : ReqVisitFatal(r)
    \/ \E r \in AllReq : ReqVisitOk(r, ConcPages)
    \/ \E r \in AllReq : ReqPanic(r)
    \/ \E r \in AllReq : ReqRespond(r)

SpecConc == Init /\ [][NextConc]_vars

-----------------------------------------------------------------------------
(* Properties *)

\* C1: every response of the cached server carries either the value of
\* categorizedResults or the whole map of the cycle that is storing it, and
\* a map it carries has all four labels: never a part of a map.
C1_ReadIsCompleteSnapshot ==
    resp.status = 200 =>
        /\ resp.body \in {categorizedResults}
                            \cup (IF pc = "storing" THEN {Pending} ELSE {})
        /\ resp.body = Nil \/ DOMAIN resp.body.m = Labels

\* C2: once a cycle whose page was read but gave fewer than four groups has
\* run past the map literal, a snapshot stored by an earlier cycle is still
\* served to readers.
C2_FailedCycleKeepsSnapshot ==
    (/\ categorizedResults # Nil
     /\ ~visitErr
     /\ literalPanics(categorizeResults(allResults))
     /\ pc \notin {"ready", "visiting", "appending", "visited"})
        => ENABLED handleRequest

\* C3: a cycle whose Visit returned an error does not end the process: the
\* refresh goroutine is never past a failed Visit with the process gone.
C3_VisitFailureNotFatal == visitErr => Alive

\* C4: the price map returned by getPricesAndChanges has entries exactly when
\* the price endpoint answered with entries, and the change map has entries
\* exactly when the 24h endpoint answered with entries.
C4_IndependentDegradation ==
    \A r \in Req :
        req[r].pc \notin {"idle", "fetching"} =>
            /\ (DOMAIN req[r].prices # {}) <=> (req[r].po = "ok" /\ req[r].pn > 0)
            /\ (DOMAIN req[r].changes # {}) <=> (req[r].co = "ok" /\ req[r].cn > 0)

\* Two resolutions of the same file name, one after the other.
TwiceSameFile == Len(imgLog) = 2 /\ imgLog[1].file = imgLog[2].file

\* C5, as stated: two resolutions of the same file name never both fetch.
C5_AtMostOneFetch == TwiceSameFile => ~(imgLog[1].fetched /\ imgLog[2].fetched)

\* C5, amended: of two resolutions of the same file name the second fetches
\* only if the file does not exist after the first; both fetch only when the
\* first download ended before os.Create succeeded.
C5_SecondFetchOnlyWithoutFile ==
    TwiceSameFile =>
        /\ imgLog[1].present => ~imgLog[2].fetched
        /\ (imgLog[1].fetched /\ imgLog[2].fetched)
              => imgLog[1].oc \in {"getErr", "mkdirErr", "createErr"}

\* C5 witness: the first resolution fetched and left the file, the second did
\* not fetch.
C5_Witness ==
    /\ TwiceSameFile
    /\ imgLog[1].fetched
    /\ imgLog[1].present
    /\ ~imgLog[2].fetched

\* C6: categorizeResults of N entries gives ceil(N/10) groups, each of 10
\* entries but the last, which has 1 to 10, and entry j of the input is entry
\* ((j-1) mod 10)+1 of group ((j-1) div 10)+1: the groups concatenated are the
\* input.
C6_BucketsPartitionInput ==
    catOut.done =>
        LET g == catOut.groups
            N == Len(catIn)
        IN  /\ Len(g) = (N + BucketSize - 1) \div BucketSize
            /\ \A k \in 1..Len(g) :
                  /\ Len(g[k]) = IF k < Len(g) THEN BucketSize
                                 ELSE N - (k - 1) * BucketSize
                  /\ Len(g[k]) \in 1..BucketSize
            /\ \A j \in 1..N :
                  g[((j - 1) \div BucketSize) + 1][((j - 1) % BucketSize) + 1] = catIn[j]

\* C6 witness: an input of 45 entries was grouped.
C6_Witness == catOut.done /\ Len(catIn) = 4 * BucketSize + 5 /\ Len(catOut.groups) = 5

\* C7: a request whose two price maps are empty and whose page gave entries
\* is answered 200 with every extracted entry under some label, each with an
\* empty price and an empty change.
C7_EmptyMapsKeepAllEntries ==
    \A r \in Req :
        (/\ resp.to = r
         /\ DOMAIN req[r].prices = {}
         /\ DOMAIN req[r].changes = {}
         /\ Len(req[r].all) >= 1)
            => /\ resp.status = 200
               /\ \A j \in 1..Len(req[r].all) :
                     /\ req[r].all[j].Price = ""
                     /\ req[r].all[j].Change24h = ""
                     /\ \E l \in Labels :
                           \E i \in 1..Len(resp.body.m[l]) :
                              resp.body.m[l][i] = req[r].all[j]

\* The entries of allResults from position a to position b.
ResultsRange(a, b) == SubSeq(allResults, a, b)

\* C8: a cycle that extracted 40 entries or more stores a map with exactly
\* the four labels, holding entries 1-10, 11-20, 21-30 and 31-40 of the
\* extraction order, and no entry after the 40th is under a label.
C8_FourLabelsFirstForty ==
    (pc \in {"sleeping", "ready"} /\ Len(allResults) >= 4 * BucketSize) =>
        /\ ~categorizedResults.isNil
        /\ DOMAIN categorizedResults.m = Labels
        /\ categorizedResults.m["Populares"] = ResultsRange(1, BucketSize)
        /\ categorizedResults.m["Ganadores"] = ResultsRange(BucketSize + 1, 2 * BucketSize)
        /\ categorizedResults.m["Perdedores"] = ResultsRange(2 * BucketSize + 1, 3 * BucketSize)
        /\ categorizedResults.m["MayorVolumen"] = ResultsRange(3 * BucketSize + 1, 4 * BucketSize)
        /\ \A j \in (4 * BucketSize + 1)..Len(allResults) :
              \A l \in Labels :
                 \A i \in 1..Len(categorizedResults.m[l]) :
                    categorizedResults.m[l][i] # allResults[j]

\* C8 witness: a cycle that extracted 45 entries has stored its map.
C8_Witness ==
    /\ pc = "sleeping"
    /\ Len(allResults) = 4 * BucketSize + 5
    /\ ~categorizedResults.isNil
    /\ categorizedResults.m["MayorVolumen"][BucketSize] = allResults[4 * BucketSize]

\* C9: the cached server answers a read in every state: whatever the refresh
\* cycles did, handleRequest can run and write its 200 response.
C9_ReadAlwaysAnswered == ENABLED handleRequest

\* C10: the callback emits one entry per named block, in order, whose price
\* and change are the values of the maps under ToUpper(name) + "USDT", or ""
\* when the symbol is missing; a block named Btc or btc gets the price of
\* BTCUSDT.
C10_JoinBySymbol ==
    \A r \in Req :
        req[r].pc \in {"visited", "done"} =>
            LET named == SelectSeq(req[r].page, HasName)
                all == req[r].all
                prices == req[r].prices
                changes == req[r].changes
            IN  /\ Len(all) = Len(named)
                /\ \A j \in 1..Len(named) :
                      LET sym == ToUpper(named[j].name) \o USDT
                      IN  /\ all[j].Name = named[j].name
                          /\ all[j].Price =
                                IF sym \in DOMAIN prices THEN prices[sym] ELSE ""
                          /\ all[j].Change24h =
                                IF sym \in DOMAIN changes THEN changes[sym] ELSE ""
                          /\ (/\ named[j].name \in {<<"B", "t", "c">>, <<"b", "t", "c">>}
                              /\ BTCUSDT \in DOMAIN prices)
                                => all[j].Price = prices[BTCUSDT]

\* C10 witness: an entry named btc got the price of BTCUSDT, and an entry
\* whose symbol is in neither map was emitted with empty fields.
C10_Witness ==
    /\ req[1].pc = "visited"
    /\ BTCUSDT \in DOMAIN req[1].prices
    /\ \E i, j \in 1..Len(req[1].all) :
          /\ req[1].all[i].Name = <<"b", "t", "c">>
          /\ req[1].all[i].Price = req[1].prices[BTCUSDT]
          /\ req[1].all[i].Price # ""
          /\ ToUpper(req[1].all[j].Name) \o USDT \notin DOMAIN req[1].prices
          /\ req[1].all[j].Price = ""
          /\ req[1].all[j].Change24h = ""

\* The output has the shape [sign] digits . digit digit %.
TwoDecimalsPercent(out) ==
    LET n == Len(out)
    IN  /\ n >= 5
        /\ out[n] = "%"
        /\ IsDigit(out[n - 1])
        /\ IsDigit(out[n - 2])
        /\ out[n - 3] = "."
        /\ \A i \in 1..(n - 4) : IsDigit(out[i]) \/ (i = 1 /\ out[i] \in {"+", "-"})
        /\ \E i \in 1..(n - 4) : IsDigit(out[i])

\* The three examples of the claim, and an unparsable text.
FormatExamples ==
    /\ fmtIn = <<"3", ".", "5">> => fmtOut.out = <<"+", "3", ".", "5", "0", "%">>
    /\ fmtIn = <<"-", "2">> => fmtOut.out = <<"-", "2", ".", "0", "0", "%">>
    /\ fmtIn = <<"0">> => fmtOut.out = <<"0", ".", "0", "0", "%">>
    /\ fmtIn = <<"a", "b", "c">> => fmtOut.out = fmtIn

\* C11, as stated: every text that ParseFloat accepts is rendered with two
\* decimal digits and a trailing %, with a leading + exactly when the value is
\* above zero; a text it rejects is returned unchanged.
C11_ParsableHasTwoDecimals ==
    fmtOut.done =>
        LET v == parseFloat(fmtIn)
        IN  /\ v.err => fmtOut.out = fmtIn
            /\ ~v.err => /\ TwoDecimalsPercent(fmtOut.out)
                         /\ (fmtOut.out[1] = "+") <=> isPositive(v)
            /\ FormatExamples

\* C11, amended: every text that ParseFloat accepts as a finite number is
\* rendered with two decimal digits and a trailing %, the digits being the
\* value rounded to the nearest hundredth, with a leading + exactly when the
\* value is above zero and a leading - exactly when the text is negative; a
\* text it rejects is returned unchanged and logged.
C11_FiniteHasTwoDecimals ==
    fmtOut.done =>
        LET v == parseFloat(fmtIn)
            out == fmtOut.out
            shown == DigitsVal(SelectSeq(out, IsDigit))
            unit == Pow10(v.scale)
            diff == shown * unit - v.num * 100
        IN  /\ v.err => out = fmtIn /\ logged = {"parse"}
            /\ (~v.err /\ v.special = "") =>
                  /\ TwoDecimalsPercent(out)
                  /\ (out[1] = "+") <=> (~v.neg /\ v.num > 0)
                  /\ (out[1] = "-") <=> v.neg
                  /\ 2 * diff <= unit
                  /\ 2 * diff >= 0 - unit
                  /\ logged = {}
            /\ FormatExamples

\* C11 witness: 3.5 was formatted to +3.50%.
C11_Witness ==
    /\ fmtOut.done
    /\ fmtIn = <<"3", ".", "5">>
    /\ fmtOut.out = <<"+", "3", ".", "5", "0", "%">>

\* C12: the refresh goroutine holds the mutex while it assigns
\* categorizedResults, and no read is answered while the refresh goroutine
\* holds the mutex (a reader that takes the mutex waits for it).
C12_ReferenceUnderLock ==
    /\ pc = "storing" => mutex = "refresh"
    /\ (resp.status = 200 /\ resp.to = 0) => mutex # "refresh"

\* The store is Empty (nil) or Populated (a map with the four labels).
Empty == categorizedResults = Nil
Populated == ~categorizedResults.isNil /\ DOMAIN categorizedResults.m = Labels

\* C13: the store is always Empty or Populated; it changes only in the step
\* that ends a successful cycle, which leaves it Populated; once Populated it
\* is Populated after every step.
C13_EmptyThenPopulated ==
    /\ [](Empty \/ Populated)
    /\ [][/\ categorizedResults' # categorizedResults => pc = "storing" /\ pc' = "sleeping"
          /\ (pc = "storing" /\ pc' = "sleeping") => Populated'
          /\ Populated => Populated']_vars

\* C13 witness: a Populated store is about to be replaced by the different
\* map of a later successful cycle.
C13_Witness ==
    /\ pc = "storing"
    /\ Populated
    /\ Pending # categorizedResults

\* C14: with the refresh goroutine scheduled fairly and every fetch
\* returning, a refresh cycle starts again and again.
C14_CyclesForever == []<>(pc = "visiting")

\* The refresh goroutine of the cached server is inside Visit: the page
\* fetch, the image downloads and the file writes of the cycle happen there.
InVisit == pc \in {"visiting", "appending"}

\* The handler of the per-request server is inside getPricesAndChanges or
\* inside Visit.
HandlerInFetch(r) == req[r].pc \in {"fetching", "fetched"}

\* The handler of request r can write its response.
CanAnswer(r) == ENABLED (ReqRespond(r) \/ ReqPanic(r))

\* In the cached server a fetch that has not returned stops only the refresh
\* goroutine: reads are answered with the current snapshot, and until Visit
\* returns the snapshot does not change and the cycle goes no further.
HangStopsRefreshOnly ==
    /\ [](InVisit => ENABLED handleRequest)
    /\ []((InVisit /\ resp.status = 200 /\ resp.to = 0) => resp.body = categorizedResults)
    /\ [][pc = "visiting" =>
            /\ categorizedResults' = categorizedResults
            /\ pc' \in {"visiting", "appending", "visited"}]_vars

\* C15, as stated: a fetch that has not returned stops only the refresh
\* goroutine and never a request handler: every handler that has begun can
\* write its response without waiting for a fetch to return.
C15_FetchBlocksNoHandler ==
    /\ HangStopsRefreshOnly
    /\ [](\A r \in Req : HandlerInFetch(r) => CanAnswer(r))

\* C15, amended: in the cached server a fetch that has not returned stops
\* only the refresh goroutine; in the per-request server the handler itself
\* waits for its fetches: it writes no response before they return, and the
\* cached server's reads do not wait for it.
C15_FetchBlocksItsCaller ==
    /\ HangStopsRefreshOnly
    /\ [](\A r \in Req : HandlerInFetch(r) => ~CanAnswer(r))
    /\ [][\A r \in Req : HandlerInFetch(r)' => resp'.to # r]_vars

\* C15 witness: with a snapshot stored, a later cycle is inside Visit, a
\* handler of the per-request server is inside its own fetch, and a read of
\* the cached server was just answered.
C15_Witness ==
    /\ pc = "visiting"
    /\ categorizedResults # Nil
    /\ HandlerInFetch(1)
    /\ resp.status = 200
    /\ resp.to = 0
    /\ resp.body = categorizedResults

\* The file name the claim gives to a display name.
UnderscoredJpg(name) ==
    [i \in 1..Len(name) |-> IF name[i] = " " THEN "_" ELSE name[i]] \o <<".", "j", "p", "g">>

\* The blocks of a document that are emitted with a remote image URL.
WithImage(doc) == { i \in 1..Len(doc) : doc[i].name # <<>> /\ doc[i].img # "" }

\* C16: every entry emitted for a block with a remote image URL has the image
\* scheme://host/images/ + name with _ for spaces + .jpg, whatever the
\* existence check and the download did; an entry for a block without one has
\* an empty image; and the Visit creates no file and logs no download error
\* but for blocks with a remote image URL.
C16_ImageRewritten ==
    /\ [](\A r \in Req :
            req[r].pc \in {"visited", "done"} =>
                LET named == SelectSeq(req[r].page, HasName)
                    base == (IF req[r].tls THEN "https" ELSE "http")
                                \o "://" \o req[r].host \o "/images/"
                IN  \A j \in 1..Len(named) :
                       req[r].all[j].Image =
                          IF named[j].img # ""
                          THEN base \o Join(UnderscoredJpg(named[j].name))
                          ELSE "")
    /\ [][\A r \in Req :
            (req[r].pc = "fetched" /\ req'[r].pc = "visited") =>
                LET doc == req'[r].page
                IN  /\ files' \ files \subseteq { UnderscoredJpg(doc[i].name) : i \in WithImage(doc) }
                    /\ WithImage(doc) = {} => logged' = {}]_vars

\* C16 witness: a download failed and the entry named "e h" was emitted with
\* the local URL of e_h.jpg, next to an entry without image.
C16_Witness ==
    /\ req[1].pc = "visited"
    /\ logged = {"image"}
    /\ <<"e", "_", "h", ".", "j", "p", "g">> \notin files
    /\ \E j, k \in 1..Len(req[1].all) :
          /\ req[1].all[j].Name = <<"e", " ", "h">>
          /\ req[1].all[j].Image = "https://backend-market.tssw.cl/images/e_h.jpg"
          /\ req[1].all[k].Image = ""

\* No entry of a map value has an empty name.
AllNamed(v) == \A l \in DOMAIN v.m : \A i \in 1..Len(v.m[l]) : v.m[l][i].Name # <<>>

\* The Visit of the running cycle returned nil and its entries are in
\* allResults.
Extracted == pc \in {"appending", "visited", "storing", "sleeping", "crashed"} /\ ~visitErr

\* C17: no entry of allResults, of the snapshot or of a response has an
\* empty name; the entries of a cycle are the blocks of its page that have a
\* name, in page order; and the Visit creates no file and logs no download
\* error but for named blocks with an image, and logs nothing else.
C17_EmptyNamesDropped ==
    /\ [](/\ \A j \in 1..Len(allResults) : allResults[j].Name # <<>>
          /\ AllNamed(categorizedResults)
          /\ AllNamed(resp.body))
    /\ [](Extracted =>
            LET named == SelectSeq(page, LAMBDA b : b.name # <<>>)
            IN  /\ Len(allResults) = Len(named)
                /\ \A j \in 1..Len(named) :
                      /\ allResults[j].Name = named[j].name
                      /\ allResults[j].Index = named[j].index)
    /\ [][(pc = "visiting" /\ pc' \in {"appending", "visited"} /\ ~visitErr') =>
            /\ files' \ files \subseteq { UnderscoredJpg(page'[i].name) : i \in WithImage(page') }
            /\ logged' \subseteq {"image"}
            /\ WithImage(page') = {} => logged' = {}]_vars

\* C17 witness: a page whose first block has an image and no name was
\* extracted without that block and stored; no file was made for it.
C17_Witness ==
    /\ pc = "sleeping"
    /\ page[1].name = <<>>
    /\ page[1].img # ""
    /\ Len(allResults) = Len(page) - 1
    /\ allResults[1].Name = page[2].name
    /\ ~categorizedResults.isNil
    /\ categorizedResults.m["Populares"][1].Name = page[2].name
    /\ <<".", "j", "p", "g">> \notin files

\* A refresh cycle is in progress: updateDataFromBinance was called and has
\* not returned.
InCycle == pc \in {"visiting", "appending", "visited", "storing"}

\* C18: a cycle begins only when no cycle is in progress and the wait after
\* the cycle before has elapsed, the wait begins only when a cycle returns,
\* and the entries of a cycle are one entry for each named block of the page
\* of that cycle, none from another cycle.
C18_CyclesDoNotOverlap ==
    /\ [][/\ (~InCycle /\ InCycle') => (pc = "ready" /\ pc' = "visiting" /\ allResults' = <<>>)
          /\ (pc # "ready" /\ pc' = "ready") => pc = "sleeping"
          /\ (pc # "sleeping" /\ pc' = "sleeping") => pc = "storing"]_vars
    /\ [](Extracted =>
            LET own == SelectSeq(page, HasName)
            IN  /\ Len(allResults) = Len(own)
                /\ \A j \in 1..Len(own) :
                      /\ allResults[j].Index = own[j].index
                      /\ allResults[j].Name = own[j].name
                      /\ allResults[j].Price = own[j].price
                      /\ allResults[j].Change24h = own[j].change)

\* C18 witness: a later cycle has extracted a page whose first entry is not
\* the first entry of the snapshot stored by the cycle before.
C18_Witness ==
    /\ pc = "visited"
    /\ ~categorizedResults.isNil
    /\ allResults # <<>>
    /\ allResults[1] # categorizedResults.m["Populares"][1]


\* The entries a response carries, in the order Populares, Ganadores,
\* Perdedores, MayorVolumen; a response without a body carries none.
ResponseEntries ==
    IF resp.body.isNil THEN <<>>
    ELSE resp.body.m["Populares"] \o resp.body.m["Ganadores"]
            \o resp.body.m["Perdedores"] \o resp.body.m["MayorVolumen"]

\* The entries of the named blocks of request r's own document, joined with
\* request r's own maps.
OwnEntries(r) ==
    LET named == SelectSeq(req[r].page, HasName)
    IN  [j \in 1..Len(named) |->
            [Name |-> named[j].name,
             Price |-> Lookup(req[r].prices, ToUpper(named[j].name) \o USDT),
             Change24h |-> Lookup(req[r].changes, ToUpper(named[j].name) \o USDT)]]

Shown(e) == [Name |-> e.Name, Price |-> e.Price, Change24h |-> e.Change24h]

====
